---- MODULE Spec2Model ----
(***************************************************************************)
(* Generalized Collatz trajectories, leading-digit extraction, digit       *)
(* histograms and the Swiss-cheese parameter scanner of the Collatz        *)
(* research repository (src/src/collatz_generator.py,                      *)
(* src/src/benford_analyzer.py).                                           *)
(***************************************************************************)
EXTENDS Integers, Sequences, FiniteSets, TLC

(***************************************************************************)
(* Bounds of the model.                                                    *)
(***************************************************************************)
\* generalized_collatz is called with n in -1..MaxN, a in 0..MaxA,
\* b in -MaxB..MaxB, c in -MaxC..MaxC and max_iterations in 0..MaxIter.
MaxN == 8
MaxA == 4
MaxB == 3
MaxC == 2
MaxIter == 6
\* The classical triple (2,3,1) is also run from every n in 1..MaxClassicN
\* with the caps 0..MaxIter and the long cap LongCap.
MaxClassicN == 30
LongCap == 120
\* The magnitude ceiling of the code is 10**50; the model keeps the test
\* `current > ceiling` and bounds the exponent so that values stay inside the
\* integers TLC computes with.
CeilingExponent == 3
\* The leading-digit extractors are applied to every number in
\* -MaxNegative..MaxNumber.
MaxNegative == 3
MaxNumber == 2100
\* Python floats are IEEE doubles with a 53-bit significand.  The model
\* computes with the same round-to-nearest-even arithmetic on a FloatBits-bit
\* significand, so that the loss of precision the doubles show from 10**15
\* on shows inside the integers TLC computes with.
FloatBits == 8
\* analyze_leading_digits is given every list of at most MaxHistLen numbers
\* of HistSamples, and the list of the repository's test.
MaxHistLen == 3
\* analyze_single_parameter_set is run for a in 0..MaxA, b in -MaxB..MaxB,
\* c in -MaxC..MaxC over the ranges (start, end) with start in -1..MaxStart
\* and end in 0..MaxEnd, with the caps 1 and MaxIter.
MaxStart == 2
MaxEnd == 4
\* Scanners are built with the centers (a0, b0, c0), a0 in 0..MaxCenterA,
\* b0 in -1..MaxCenterB, c0 in -1..MaxCenterC, and the side lengths
\* 1..MaxSide; add_trivial_patterns is run at most MaxTrivialRuns times.
MaxCenterA == 3
MaxCenterB == 5
MaxCenterC == 2
MaxSide == 5
MaxTrivialRuns == 2
\* scan_cube is run over the starting ranges (1, end), end in 1..MaxScanEnd,
\* with the cap MaxScanIter; the rankings are asked for the top 0..MaxTopN.
MaxScanEnd == 2
MaxScanIter == 3
MaxTopN == 2
\* The rankings are also given every list of at most MaxResults records of
\* RankSamples.
MaxResults == 3
\* The pipeline runs over [start, end], start in 1..MaxBatchStart, end in
\* 0..MaxBatchEnd, cut into at most MaxWorkers batches, with the cap MaxIter.
MaxBatchStart == 2
MaxBatchEnd == 5
MaxWorkers == 2

\* the turns of the shortcut loop that are followed before giving up
MaxShortcutTurns == 32

VARIABLES
  n, a, b, c, max_iterations,   \* arguments of generalized_collatz
  sequence, current, iter,      \* its locals; iter counts the for-loop's turns
  pc,                           \* "call", "loop" or "return"; "idle": no call
  number,                       \* argument of the two get_leading_digit
  logResult,                    \* outcome of benford_analyzer.get_leading_digit
  strResult,                    \* outcome of collatz_generator.get_leading_digit
  numbers,                      \* argument `sequence` of analyze_leading_digits
  digit_counts,                 \* its Counter: a function on the keys present
  hidx,                         \* position of its for loop in `numbers`
  hpc,                          \* "loop" or "return"; "idle": no call
  initial_range,                \* argument of analyze_single_parameter_set
  next_n,                       \* the next value of its `for n in range(...)`
  all_digits,                   \* its list of leading digits
  analysis,                     \* the record it returns
  conformity,                   \* what analyze_conformity returned for the
                                \* histogram of `analysis`
  trajectories,                 \* history: the lists generalized_collatz
                                \* returned to it, with their start values
  apc,                          \* "loop", "calling" or "return"; "idle"
  center, side_length,          \* SwissCheeseParameterScanner: self.center,
  holes,                        \* self.side_length, self.holes
  trivial_runs,                 \* history: the calls of add_trivial_patterns,
                                \* each with self.holes before and after it
                                \* and the value it returned
  scan_pos,                     \* scan_cube: position of itertools.product
  results, scanned, skipped,    \* its locals
  invoked,                      \* history: the triples it has handed to
                                \* analyze_single_parameter_set
  failed,                       \* history: the triples whose analysis raised
  spc,                          \* "build": scan_cube not yet called; "loop",
                                \* "analyzing", "return"; "idle": no scanner
  top_n,                        \* argument of the two ranking methods
  best, fastest,                \* what they returned
  sorted_input,                 \* history: the lists they handed to sorted()
  processed_file,               \* processed_cases.json: its content
  initial_file,                 \* history: its content when the run began
  worker,                       \* the process_batch calls, one per worker
  generated,                    \* history: the starting values handed to
                                \* generalized_collatz by each worker
  cb_start, cb_end,             \* create_batches: its arguments start, end,
  cb_batch_size,                \* batch_size
  cb_batches, cb_current,       \* its locals batches, current
  cbpc                          \* "loop" or "return"; "idle": no call

gcVars == <<n, a, b, c, max_iterations, sequence, current, iter, pc>>
ldVars == <<number, logResult, strResult>>
hVars == <<numbers, digit_counts, hidx, hpc>>
aVars ==
  <<initial_range, next_n, all_digits, analysis, conformity, trajectories, apc>>
sVars == <<center, side_length, holes, trivial_runs>>
scVars == <<scan_pos, results, scanned, skipped, invoked, failed, spc>>
rkVars == <<top_n, best, fastest, sorted_input>>
pbVars == <<processed_file, initial_file, worker, generated>>
cbVars == <<cb_start, cb_end, cb_batch_size, cb_batches, cb_current, cbpc>>

(***************************************************************************)
(* generalized_collatz (src/src/collatz_generator.py:10-57)                *)
(***************************************************************************)
MagnitudeCeiling == 10 ^ CeilingExponent

\* `x in s` for a list s
Contains(s, x) == \E i \in 1..Len(s) : s[i] = x

Last(s) == s[Len(s)]

\* mutant: the start value 0 is let through
RejectsInput_ZeroStart(n0, a0) == n0 < 0 \/ a0 <= 0

\* line 18: the guard of the early `return []`
RejectsInput(n0, a0) == n0 <= 0 \/ a0 <= 0

\* mutant: the loop takes one turn too many
HasNextTurn_OneMore(i, cap) == i <= cap

\* line 24: `for _ in range(max_iterations)` has another turn to run
HasNextTurn(i, cap) == i < cap

\* mutant: the magnitude check is missing
BreaksBeforeStep_NoCeiling(cur) == cur = 1

\* mutant: reaching 1 does not stop the loop
BreaksBeforeStep_PastOne(cur) == cur > MagnitudeCeiling

\* lines 26-31: the two breaks at the top of the loop body
BreaksBeforeStep(cur) == cur = 1 \/ cur > MagnitudeCeiling

\* mutant: the shortcut loop does not look at the sign
ShortcutGuard_AnySign(numerator, a0) == numerator % a0 = 0

\* line 45: the condition of `while numerator % a == 0 and numerator > 0`
ShortcutGuard(numerator, a0) == numerator % a0 = 0 /\ numerator > 0

\* lines 45-46: the number of turns the shortcut loop takes, -1 if it is
\* still running after `fuel` turns
RECURSIVE ShortcutTurns(_, _, _)
ShortcutTurns(numerator, a0, fuel) ==
  IF ~ShortcutGuard(numerator, a0)
    THEN 0
    ELSE IF fuel = 0
           THEN -1
           ELSE LET rest == ShortcutTurns(numerator \div a0, a0, fuel - 1)
                IN  IF rest = -1 THEN -1 ELSE rest + 1

\* lines 45-46: the shortcut, `while numerator % a == 0 and numerator > 0`
RECURSIVE MaximalDivision(_, _)
MaximalDivision(numerator, a0) ==
  IF numerator % a0 = 0 /\ numerator > 0
    THEN MaximalDivision(numerator \div a0, a0)
    ELSE numerator

\* mutant: the classical case is not recognised, the shortcut always applies
IsClassical_Never(a0, b0, c0) == FALSE

\* line 40: the classical case, which takes no shortcut
IsClassical(a0, b0, c0) == a0 = 2 /\ b0 = 3 /\ c0 = 1

\* mutant: the offset is subtracted
TransformStep_Subtracts(cur, a0, b0, c0) ==
  IF cur % a0 = 0
    THEN cur \div a0
    ELSE MaximalDivision(b0 * cur - c0, a0)

\* mutant: the shortcut is never taken
TransformStep_NoShortcut(cur, a0, b0, c0) ==
  IF cur % a0 = 0 THEN cur \div a0 ELSE b0 * cur + c0

\* lines 33-47: the value the loop body computes from `current`
TransformStep(cur, a0, b0, c0) ==
  IF cur % a0 = 0
    THEN cur \div a0
    ELSE LET numerator == b0 * cur + c0
         IN  IF IsClassical(a0, b0, c0)
               THEN numerator
               ELSE MaximalDivision(numerator, a0)

\* mutant: a value seen before is never appended again
AppendStep_NeverRepeats(seq, cur) ==
  IF Contains(seq, cur) THEN seq ELSE Append(seq, cur)

\* lines 50-55: the list after cycle detection has looked at the new value
AppendStep(seq, cur) ==
  IF Contains(seq, cur)
    THEN IF cur # Last(seq) THEN Append(seq, cur) ELSE seq
    ELSE Append(seq, cur)

\* lines 18-22
GcEnter ==
  /\ pc = "call"
  /\ IF RejectsInput(n, a)
       THEN /\ sequence' = << >>
            /\ pc' = "return"
            /\ UNCHANGED current
       ELSE /\ sequence' = <<n>>
            /\ current' = n
            /\ pc' = "loop"
  /\ UNCHANGED <<n, a, b, c, max_iterations, iter>>
  /\ UNCHANGED <<ldVars, hVars, aVars, sVars, scVars, rkVars, pbVars, cbVars>>

\* lines 24-55: one turn of the for loop, or its end
GcIterate ==
  /\ pc = "loop"
  /\ IF ~HasNextTurn(iter, max_iterations) \/ BreaksBeforeStep(current)
       THEN /\ pc' = "return"
            /\ UNCHANGED <<sequence, current, iter>>
       ELSE LET next == TransformStep(current, a, b, c)
            IN  /\ current' = next
                /\ sequence' = AppendStep(sequence, next)
                /\ iter' = iter + 1
                /\ pc' = IF Contains(sequence, next) THEN "return" ELSE "loop"
  /\ UNCHANGED <<n, a, b, c, max_iterations>>
  /\ UNCHANGED <<ldVars, hVars, aVars, sVars, scVars, rkVars, pbVars, cbVars>>

\* the calls the model makes
GcInputs ==
  [n : -1..MaxN, a : 0..MaxA, b : -MaxB..MaxB, c : -MaxC..MaxC,
   cap : 0..MaxIter]
  \cup
  [n : 1..MaxClassicN, a : {2}, b : {3}, c : {1},
   cap : (0..MaxIter) \cup {LongCap}]

GcInit ==
  \E in \in GcInputs :
    /\ n = in.n /\ a = in.a /\ b = in.b /\ c = in.c
    /\ max_iterations = in.cap
    /\ sequence = << >>
    /\ current = 0
    /\ iter = 0
    /\ pc = "call"

\* no call of generalized_collatz is made
GcIdle ==
  /\ n = 0 /\ a = 0 /\ b = 0 /\ c = 0 /\ max_iterations = 0
  /\ sequence = << >> /\ current = 0 /\ iter = 0 /\ pc = "idle"

(***************************************************************************)
(* The two get_leading_digit                                               *)
(*   src/src/benford_analyzer.py:5-32     floor(n / 10**floor(log10(n)))    *)
(*   src/src/collatz_generator.py:61-65   int(str(abs(n))[0])               *)
(* An outcome is a record: the exception raised ("" for none) and the      *)
(* value returned.                                                         *)
(***************************************************************************)
NotCalled == [raises |-> "pending", value |-> 0]
Returns(v) == [raises |-> "", value |-> v]
Raises(e) == [raises |-> e, value |-> 0]

\* int.bit_length
RECURSIVE BitLength(_)
BitLength(x) == IF x = 0 THEN 0 ELSE 1 + BitLength(x \div 2)

\* The float nearest to the positive integer x (ties to even), as
\* math.log10 converts its int argument: exact up to FloatBits bits.
RoundToFloat(x) ==
  IF BitLength(x) <= FloatBits
    THEN x
    ELSE LET unit == 2 ^ (BitLength(x) - FloatBits)
             q == x \div unit
             r == x % unit
         IN  IF 2 * r > unit \/ (2 * r = unit /\ q % 2 = 1)
               THEN (q + 1) * unit
               ELSE q * unit

\* the integer k with 10^k <= x < 10^(k+1), for x >= 1
RECURSIVE FloorLog10(_)
FloorLog10(x) == IF x < 10 THEN 0 ELSE 1 + FloorLog10(x \div 10)

\* The float nearest to log10(x) is k+1 although x < 10^(k+1): with
\* g = 10^(k+1) - x the logarithm is (k+1) - t, t < g / (x * ln 10), and half
\* the spacing of the floats below k+1 is 2^(e - FloatBits) for
\* 2^e < k+1 <= 2^(e+1); ln 10 is taken as 2.302.
LogRoundsUp(x, k) ==
  LET g == 10 ^ (k + 1) - x
      scale == 2 ^ (FloatBits - (BitLength(k) - 1))
  IN  /\ g * scale <= 3 * x
      /\ g * scale * 1000 <= 2302 * x

\* benford_analyzer.py:26  math.floor(math.log10(n))
Log10Floor(n0) ==
  LET x == RoundToFloat(n0)
      k == FloorLog10(x)
  IN  IF LogRoundsUp(x, k) THEN k + 1 ELSE k

\* benford_analyzer.py:29-32  math.floor(n / 10**exponent): the quotient of
\* the two ints is rounded to the nearest float, which is d+1 when the
\* quotient is within half a spacing of it.
FloorOfQuotient(n0, divisor) ==
  LET d == n0 \div divisor
      scale == 2 ^ (FloatBits - (BitLength(d) - 1))
  IN  IF n0 * scale >= ((d + 1) * scale - 1) * divisor THEN d + 1 ELSE d

\* mutant: zero is let through
LogRejects_ZeroPasses(n0) == n0 < 0

\* benford_analyzer.py:16
LogRejects(n0) == n0 <= 0

\* benford_analyzer.get_leading_digit
GetLeadingDigitLog(n0) ==
  IF LogRejects(n0)
    THEN Raises("ValueError")
    ELSE Returns(FloorOfQuotient(n0, 10 ^ Log10Floor(n0)))

\* str(x) for x >= 0: its decimal digits, most significant first
RECURSIVE Str(_)
Str(x) == IF x < 10 THEN <<x>> ELSE Append(Str(x \div 10), x % 10)

Abs(x) == IF x < 0 THEN -x ELSE x

\* collatz_generator.py:63
StrRejects(n0) == n0 <= 0

\* collatz_generator.get_leading_digit
GetLeadingDigitStr(n0) ==
  IF StrRejects(n0)
    THEN Raises("ValueError")
    ELSE Returns(Str(Abs(n0))[1])

\* a call of benford_analyzer.get_leading_digit(number)
ExtractLog ==
  /\ logResult = NotCalled
  /\ logResult' = GetLeadingDigitLog(number)
  /\ UNCHANGED <<number, strResult>>
  /\ UNCHANGED <<gcVars, hVars, aVars, sVars, scVars, rkVars, pbVars, cbVars>>

\* a call of collatz_generator.get_leading_digit(number)
ExtractStr ==
  /\ strResult = NotCalled
  /\ strResult' = GetLeadingDigitStr(number)
  /\ UNCHANGED <<number, logResult>>
  /\ UNCHANGED <<gcVars, hVars, aVars, sVars, scVars, rkVars, pbVars, cbVars>>

LdIdle == number = 0 /\ logResult = NotCalled /\ strResult = NotCalled

(***************************************************************************)
(* analyze_leading_digits (src/src/benford_analyzer.py:34-67)              *)
(***************************************************************************)
EmptyCounter == [d \in {} |-> 0]

\* Counter: counts[d] += 1, a missing key counting as 0
Increment(counts, d) ==
  IF d \in DOMAIN counts
    THEN [counts EXCEPT ![d] = @ + 1]
    ELSE counts @@ (d :> 1)

\* lines 48-60: the Counter after the loop body has seen one number
CountNumber(counts, x) ==
  IF x > 0
    THEN LET r == GetLeadingDigitLog(x)
         IN  IF r.raises = "" /\ 1 <= r.value /\ r.value <= 9
               THEN Increment(counts, r.value)
               ELSE counts
    ELSE counts

\* lines 63-65: the missing digits get the count 0
FillMissing(counts) ==
  [d \in (DOMAIN counts) \cup (1..9) |->
     IF d \in DOMAIN counts THEN counts[d] ELSE 0]

\* lines 47-60: one turn of the for loop
HistStep ==
  /\ hpc = "loop"
  /\ hidx <= Len(numbers)
  /\ digit_counts' = CountNumber(digit_counts, numbers[hidx])
  /\ hidx' = hidx + 1
  /\ UNCHANGED <<numbers, hpc>>
  /\ UNCHANGED <<gcVars, ldVars, aVars, sVars, scVars, rkVars, pbVars, cbVars>>

\* lines 63-67: after the loop
HistReturn ==
  /\ hpc = "loop"
  /\ hidx > Len(numbers)
  /\ digit_counts' = FillMissing(digit_counts)
  /\ hpc' = "return"
  /\ UNCHANGED <<numbers, hidx>>
  /\ UNCHANGED <<gcVars, ldVars, aVars, sVars, scVars, rkVars, pbVars, cbVars>>

HIdle ==
  numbers = << >> /\ digit_counts = EmptyCounter /\ hidx = 0 /\ hpc = "idle"

(***************************************************************************)
(* SwissCheeseParameterScanner.analyze_single_parameter_set                *)
(* (src/src/collatz_generator.py:185-238).  Its arguments a, b, c and      *)
(* max_iterations are passed on to generalized_collatz as they are and are *)
(* the variables a, b, c, max_iterations.                                  *)
(***************************************************************************)
NoAnalysis == [parameters |-> << >>]

\* mutant: the term 1 is sampled too
Qualifies_FromOne(term) == term > 0

\* line 207: `if term > 1`
Qualifies(term) == term > 1

\* lines 205-211: the digits one trajectory adds to all_digits
RECURSIVE DigitsOf(_)
DigitsOf(seq) ==
  IF seq = << >>
    THEN << >>
    ELSE LET term == Head(seq)
             r == GetLeadingDigitStr(term)
         IN  IF Qualifies(term) /\ r.raises = ""
               THEN <<r.value>> \o DigitsOf(Tail(seq))
               ELSE DigitsOf(Tail(seq))

\* lines 215-216: Counter(all_digits), read for the digits 1..9
ObservedCounts(digits) ==
  [d \in 1..9 |-> Cardinality({i \in 1..Len(digits) : digits[i] = d})]

\* sum(observed_counts.values())
RECURSIVE SumValues(_, _)
SumValues(counts, keys) ==
  IF keys = {}
    THEN 0
    ELSE LET k == CHOOSE x \in keys : TRUE
         IN  counts[k] + SumValues(counts, keys \ {k})

\* Floats and None.  A finite float is kept in fixed point: a MAD in
\* millionths, a mixing speed and a logarithm in thousandths.
Num(v) == <<"num", v>>
NaN == <<"nan", 0>>
Inf == <<"inf", 0>>
None == <<"None", 0>>

IsNum(x) == x[1] = "num"

\* lines 68-70: log10(1 + 1/d) for d = 1..9, in millionths
BenfordMicro ==
  <<301030, 176091, 124939, 96910, 79181, 66947, 57992, 51153, 45757>>

\* lines 104-107: the sum of abs(p_obs - p_benford) over the digits lo..9
RECURSIVE SumDeviations(_, _, _)
SumDeviations(counts, total, lo) ==
  IF lo > 9
    THEN 0
    ELSE Abs((counts[lo] * 10 ^ 6) \div total - BenfordMicro[lo])
         + SumDeviations(counts, total, lo + 1)

\* calculate_mad, lines 93-109
CalculateMad(counts) ==
  LET total == SumValues(counts, 1..9)
  IN  IF total = 0
        THEN NaN
        ELSE Num(SumDeviations(counts, total, 1) \div 9)

\* calculate_dmix, lines 73-90
CalculateDmix(counts) ==
  LET total == SumValues(counts, 1..9)
  IN  IF total = 0
        THEN NaN
        ELSE Num(SumDeviations(counts, total, 1) \div 2)

\* The binary digits of log10(y / 1000) for 1000 <= y < 10000, most
\* significant first, as a number: square, and take a 1 when the square
\* passes 10.
RECURSIVE LogFraction(_, _)
LogFraction(y, bits) ==
  IF bits = 0
    THEN 0
    ELSE LET sq == (y * y) \div 1000
         IN  IF sq >= 10000
               THEN 2 ^ (bits - 1) + LogFraction(sq \div 10, bits - 1)
               ELSE LogFraction(sq, bits - 1)

\* math.log10(x) for an int x >= 1, in thousandths
Log10Milli(x) ==
  LET k == FloorLog10(x)
  IN  1000 * k + (1000 * LogFraction((1000 * x) \div 10 ^ k, 10)) \div 1024

\* digital_mixing_speed, lines 112-118
DigitalMixingSpeed(mad, sample_size) ==
  IF mad = Num(0) \/ sample_size <= 0
    THEN Inf
    ELSE IF ~IsNum(mad)
    THEN mad
    ELSE Num(((10 ^ 9 \div mad[2]) * Log10Milli(sample_size)) \div 1000)

\* mutant: digital_mixing_speed is called without the guard
MixSpeed_Unguarded(mad, total_samples) ==
  DigitalMixingSpeed(mad, total_samples)

\* lines 224-227: `mad_value > 0` is false of nan
MixSpeed(mad, total_samples) ==
  IF IsNum(mad) /\ mad[2] > 0 /\ total_samples > 0
    THEN DigitalMixingSpeed(mad, total_samples)
    ELSE None

\* lines 201-204: the next turn of `for n in range(start, end + 1)`: the
\* start value 1 is skipped, any other is handed to generalized_collatz
AnalyzeNext ==
  /\ apc = "loop"
  /\ next_n <= initial_range[2]
  /\ next_n' = next_n + 1
  /\ IF next_n = 1
       THEN UNCHANGED <<gcVars, apc>>
       ELSE /\ n' = next_n
            /\ sequence' = << >>
            /\ current' = 0
            /\ iter' = 0
            /\ pc' = "call"
            /\ apc' = "calling"
            /\ UNCHANGED <<a, b, c, max_iterations>>
  /\ UNCHANGED <<initial_range, all_digits, analysis, conformity, trajectories>>
  /\ UNCHANGED <<ldVars, hVars, sVars, scVars, rkVars, pbVars, cbVars>>

\* lines 204-211: generalized_collatz has returned; its terms are sampled
AnalyzeCollect ==
  /\ apc = "calling"
  /\ pc = "return"
  /\ all_digits' = all_digits \o DigitsOf(sequence)
  /\ trajectories' = Append(trajectories, [start |-> n, terms |-> sequence])
  /\ pc' = "idle"
  /\ apc' = "loop"
  /\ UNCHANGED <<n, a, b, c, max_iterations, sequence, current, iter>>
  /\ UNCHANGED <<initial_range, next_n, analysis, conformity>>
  /\ UNCHANGED <<ldVars, hVars, sVars, scVars, rkVars, pbVars, cbVars>>

\* lines 213-238: after the loop
AnalyzeReturn ==
  /\ apc = "loop"
  /\ next_n > initial_range[2]
  /\ LET observed_counts == ObservedCounts(all_digits)
         total_samples == SumValues(observed_counts, 1..9)
         mad_value == CalculateMad(observed_counts)
     IN  analysis' = [parameters |-> <<a, b, c>>,
                      initial_range |-> initial_range,
                      digit_frequencies |-> observed_counts,
                      total_samples |-> total_samples,
                      mad |-> mad_value,
                      dmix_variance |-> CalculateDmix(observed_counts),
                      digital_mixing_speed |->
                        MixSpeed(mad_value, total_samples)]
  /\ apc' = "return"
  /\ UNCHANGED <<initial_range, next_n, all_digits, conformity, trajectories>>
  /\ UNCHANGED <<gcVars, ldVars, hVars, sVars, scVars, rkVars, pbVars, cbVars>>

(***************************************************************************)
(* analyze_conformity (src/src/statistical_tests.py:136-180), called on    *)
(* the histogram of an analysis                                            *)
(***************************************************************************)
NoConformity == [total_samples |-> -1]

\* round(x, 5) of a float kept in millionths
Round5(micro) == ((micro + 5) \div 10) * 10

\* lines 146-180; the chi-squared and Kolmogorov-Smirnov figures of scipy
\* and numpy are left as the name of what computes them
AnalyzeConformityOf(observed_counts) ==
  LET total_samples == SumValues(observed_counts, 1..9)
  IN  IF total_samples = 0
        THEN [total_samples |-> 0,
              chi_squared_statistic |-> Num(0),
              p_value |-> Num(10 ^ 6),
              conforms_chi_squared |-> FALSE,
              ks_statistic |-> Num(0),
              mad |-> Num(10 ^ 6),
              conforms_mad |-> FALSE,
              conforms_benford |-> FALSE]
        ELSE LET mad_value == SumDeviations(observed_counts, total_samples, 1)
                                \div 9
             IN  [total_samples |-> total_samples,
                  chi_squared_statistic |-> <<"chisquare", 0>>,
                  p_value |-> <<"chisquare", 0>>,
                  conforms_chi_squared |-> "chisquare",
                  ks_statistic |-> <<"cumsum", 0>>,
                  mad |-> Num(Round5(mad_value)),
                  conforms_mad |-> mad_value < 15000,
                  conforms_benford |-> mad_value < 15000]

\* analyze_conformity(observed_counts) for the histogram of the analysis
AnalyzeConformity ==
  /\ apc = "return"
  /\ conformity = NoConformity
  /\ conformity' = AnalyzeConformityOf(analysis.digit_frequencies)
  /\ UNCHANGED <<initial_range, next_n, all_digits, analysis, trajectories,
                 apc>>
  /\ UNCHANGED <<gcVars, ldVars, hVars, sVars, scVars, rkVars, pbVars, cbVars>>

AIdle ==
  /\ initial_range = <<0, 0>> /\ next_n = 0 /\ all_digits = << >>
  /\ analysis = NoAnalysis /\ conformity = NoConformity
  /\ trajectories = << >> /\ apc = "idle"

(***************************************************************************)
(* SwissCheeseParameterScanner: the cube and the hole set                  *)
(* (src/src/collatz_generator.py:128-183)                                  *)
(***************************************************************************)
Max(x, y) == IF x >= y THEN x ELSE y

\* line 141
Half == side_length \div 2

\* lines 142-144: the bounds of range(lo, hi + 1), as <<lo, hi>>
ARange == <<Max(1, center[1] - Half), center[1] + Half>>
BRange == <<center[2] - Half, center[2] + Half>>
CRange == <<center[3] - Half, center[3] + Half>>

\* len(range(lo, hi + 1))
RangeLen(r) == IF r[2] >= r[1] THEN r[2] - r[1] + 1 ELSE 0

\* lines 158-160: the triples in the order of the nested loops, a outer,
\* b middle, c inner
CubeList ==
  LET nb == RangeLen(BRange)
      nc == RangeLen(CRange)
  IN  [i \in 1..(RangeLen(ARange) * nb * nc) |->
         <<ARange[1] + ((i - 1) \div (nb * nc)),
           BRange[1] + (((i - 1) \div nc) % nb),
           CRange[1] + ((i - 1) % nc)>>]

\* mutant: rule 4 as in the superseded scanner, b even instead of b a
\* multiple of a
IsTrivial_EvenB(t) ==
  LET ta == t[1]
      tb == t[2]
      tc == t[3]
  IN  IF ta = 1 THEN TRUE
      ELSE IF tb = 0 /\ tc = 0 THEN TRUE
      ELSE IF tb = 1 /\ tc = 0 THEN TRUE
      ELSE IF tc = 0 /\ tb % 2 = 0 THEN TRUE
      ELSE IF tb < 0 /\ tc < 0 THEN TRUE
      ELSE FALSE

\* lines 163-180: the if/elif chain appends the triple
IsTrivial(t) ==
  LET ta == t[1]
      tb == t[2]
      tc == t[3]
  IN  IF ta = 1 THEN TRUE
      ELSE IF tb = 0 /\ tc = 0 THEN TRUE
      ELSE IF tb = 1 /\ tc = 0 THEN TRUE
      ELSE IF tc = 0 /\ tb % ta = 0 THEN TRUE
      ELSE IF tb < 0 /\ tc < 0 THEN TRUE
      ELSE FALSE

\* lines 156-180: the list `trivial`
TrivialList == SelectSeq(CubeList, IsTrivial)

\* mutant: the holes that were new are counted
ReturnedCount_NewOnly(trivial, before) ==
  Cardinality({trivial[i] : i \in 1..Len(trivial)} \ before)

\* line 183: `return len(trivial)`
ReturnedCount(trivial, before) == Len(trivial)

\* line 152: self.holes.update(hole_list)
UpdatedHoles(old, hole_list) ==
  old \cup {hole_list[i] : i \in 1..Len(hole_list)}

\* the triples the model hands to add_hole and add_holes_from_list
ManualHoles == {<<5, 5, 1>>, <<2, 3, 1>>}

\* lines 146-148
AddHole ==
  /\ spc = "build"
  /\ \E t \in ManualHoles : holes' = holes \cup {t}
  /\ UNCHANGED <<center, side_length, trivial_runs>>
  /\ UNCHANGED <<gcVars, ldVars, hVars, aVars, scVars, rkVars, pbVars, cbVars>>

\* lines 150-152
AddHolesFromList ==
  /\ spc = "build"
  /\ \E hole_list \in UNION {[1..len -> ManualHoles] : len \in 0..2} :
       holes' = UpdatedHoles(holes, hole_list)
  /\ UNCHANGED <<center, side_length, trivial_runs>>
  /\ UNCHANGED <<gcVars, ldVars, hVars, aVars, scVars, rkVars, pbVars, cbVars>>

\* lines 154-183
AddTrivialPatterns ==
  /\ spc = "build"
  /\ Len(trivial_runs) < MaxTrivialRuns
  /\ holes' = UpdatedHoles(holes, TrivialList)
  /\ trivial_runs' = Append(trivial_runs,
                            [before |-> holes,
                             after |-> holes',
                             returned |-> ReturnedCount(TrivialList, holes)])
  /\ UNCHANGED <<center, side_length>>
  /\ UNCHANGED <<gcVars, ldVars, hVars, aVars, scVars, rkVars, pbVars, cbVars>>

SIdle ==
  center = <<0, 0, 0>> /\ side_length = 0 /\ holes = {} /\ trivial_runs = << >>

(***************************************************************************)
(* SwissCheeseParameterScanner.scan_cube                                   *)
(* (src/src/collatz_generator.py:240-310).  Its arguments initial_range    *)
(* and max_iterations are handed to analyze_single_parameter_set as they   *)
(* are and are the variables initial_range, max_iterations.                *)
(***************************************************************************)
\* the triples whose analysis may raise an exception
FaultyTriples == {<<2, 3, 1>>, <<3, 4, 2>>, <<2, 0, 1>>}

\* mutant: the triple is looked up with its coordinates in reverse
IsHole_Reversed(t, hs) == <<t[3], t[2], t[1]>> \in hs

\* line 273: `(a, b, c) in self.holes`
IsHole(t, hs) == t \in hs

\* mutant: itertools.product runs over one triple less
HasNextTriple_StopsEarly(pos, cube) == pos < Len(cube)

\* line 271: itertools.product has another triple
HasNextTriple(pos, cube) == pos <= Len(cube)

\* mutant: the first exception ends the loop
AfterException_Aborts(pos, cube) == Len(cube) + 1

\* lines 297-299: `continue`, the position of the loop after an exception
AfterException(pos, cube) == pos

\* lines 257-260
ScanStart ==
  /\ spc = "build"
  /\ scan_pos' = 1
  /\ results' = << >>
  /\ scanned' = 0
  /\ skipped' = 0
  /\ spc' = "loop"
  /\ UNCHANGED <<invoked, failed>>
  /\ UNCHANGED <<gcVars, ldVars, hVars, aVars, sVars, rkVars, pbVars, cbVars>>

\* lines 271-283: one turn of the for loop, up to the call of
\* analyze_single_parameter_set
ScanNext ==
  /\ spc = "loop"
  /\ HasNextTriple(scan_pos, CubeList)
  /\ scan_pos' = scan_pos + 1
  /\ LET t == CubeList[scan_pos]
     IN  IF IsHole(t, holes)
           THEN /\ skipped' = skipped + 1
                /\ UNCHANGED <<scanned, invoked, spc>>
                /\ UNCHANGED <<gcVars, aVars>>
           ELSE /\ scanned' = scanned + 1
                /\ invoked' = Append(invoked, t)
                /\ spc' = "analyzing"
                /\ a' = t[1] /\ b' = t[2] /\ c' = t[3]
                /\ n' = 0 /\ sequence' = << >> /\ current' = 0 /\ iter' = 0
                /\ pc' = "idle"
                /\ next_n' = initial_range[1]
                /\ all_digits' = << >>
                /\ analysis' = NoAnalysis
                /\ trajectories' = << >>
                /\ conformity' = NoConformity
                /\ apc' = "loop"
                /\ UNCHANGED <<skipped, max_iterations, initial_range>>
  /\ UNCHANGED <<results, failed>>
  /\ UNCHANGED <<ldVars, hVars, sVars, rkVars, pbVars, cbVars>>

\* mutant: the record of a triple is committed before its pass is over
ScanCollect_Partial ==
  /\ spc = "analyzing"
  /\ apc \in {"loop", "return"}
  /\ LET counts == ObservedCounts(all_digits)
         total == SumValues(counts, 1..9)
         partial == [parameters |-> <<a, b, c>>,
                     initial_range |-> initial_range,
                     digit_frequencies |-> counts,
                     total_samples |-> total,
                     mad |-> CalculateMad(counts),
                     dmix_variance |-> CalculateDmix(counts),
                     digital_mixing_speed |->
                       MixSpeed(CalculateMad(counts), total)]
     IN  results' = Append(results, IF apc = "return" THEN analysis
                                                      ELSE partial)
  /\ apc' = "idle"
  /\ spc' = "loop"
  /\ UNCHANGED <<scan_pos, scanned, skipped, invoked, failed>>
  /\ UNCHANGED <<initial_range, next_n, all_digits, analysis, conformity,
               trajectories>>
  /\ UNCHANGED <<gcVars, ldVars, hVars, sVars, rkVars, pbVars, cbVars>>

\* lines 281-295: analyze_single_parameter_set has returned
ScanCollect ==
  /\ spc = "analyzing"
  /\ apc = "return"
  /\ results' = Append(results, analysis)
  /\ apc' = "idle"
  /\ spc' = "loop"
  /\ UNCHANGED <<scan_pos, scanned, skipped, invoked, failed>>
  /\ UNCHANGED <<initial_range, next_n, all_digits, analysis, conformity,
               trajectories>>
  /\ UNCHANGED <<gcVars, ldVars, hVars, sVars, rkVars, pbVars, cbVars>>

\* lines 297-299: analyze_single_parameter_set has raised at some point of
\* its run; its locals are gone and the loop goes on
ScanRaise ==
  /\ spc = "analyzing"
  /\ apc \in {"loop", "calling"}
  /\ <<a, b, c>> \in FaultyTriples
  /\ failed' = Append(failed, <<a, b, c>>)
  /\ scan_pos' = AfterException(scan_pos, CubeList)
  /\ spc' = "loop"
  /\ n' = 0 /\ sequence' = << >> /\ current' = 0 /\ iter' = 0 /\ pc' = "idle"
  /\ next_n' = 0 /\ all_digits' = << >> /\ analysis' = NoAnalysis
  /\ conformity' = NoConformity /\ trajectories' = << >> /\ apc' = "idle"
  /\ UNCHANGED <<a, b, c, max_iterations, initial_range>>
  /\ UNCHANGED <<results, scanned, skipped, invoked>>
  /\ UNCHANGED <<ldVars, hVars, sVars, rkVars, pbVars, cbVars>>

\* line 302: the counts the closing line of scan_cube prints,
\* "Scan complete! Scanned: {scanned}, Skipped: {skipped}"
ScanReport == [scanned |-> scanned, skipped |-> skipped]

\* lines 301-310
ScanReturn ==
  /\ spc = "loop"
  /\ ~HasNextTriple(scan_pos, CubeList)
  /\ spc' = "return"
  /\ UNCHANGED <<scan_pos, results, scanned, skipped, invoked, failed>>
  /\ UNCHANGED <<gcVars, ldVars, hVars, aVars, sVars, rkVars, pbVars, cbVars>>

\* scan_cube has not been called
ScNotStarted ==
  /\ scan_pos = 0 /\ results = << >> /\ scanned = 0 /\ skipped = 0
  /\ invoked = << >> /\ failed = << >>

ScIdle == ScNotStarted /\ spc = "idle"

(***************************************************************************)
(* The two rankings (src/src/collatz_generator.py:312-340)                 *)
(***************************************************************************)
\* r.get(key): None for a record without the key
Get(r, key) == IF key \in DOMAIN r THEN r[key] ELSE None

Min(x, y) == IF x <= y THEN x ELSE y

\* seq[:k]
Slice(seq, k) ==
  IF k >= 0
    THEN SubSeq(seq, 1, Min(k, Len(seq)))
    ELSE SubSeq(seq, 1, Max(0, Len(seq) + k))

\* mutant: nan is let through
HasMad_NanPasses(r) == Get(r, "mad") # None

\* lines 317-319
HasMad(r) == Get(r, "mad") # None /\ Get(r, "mad") # NaN

\* mutant: None is the only speed left out
HasSpeed_InfPasses(r) == Get(r, "digital_mixing_speed") # None

\* lines 331-333
HasSpeed(r) ==
  /\ Get(r, "digital_mixing_speed") # None
  /\ Get(r, "digital_mixing_speed") # Inf

\* The sort key as an integer; `sign` is -1 under reverse=True.
SortKey(r, key, sign) == sign * r[key][2]

\* sorted(): the insertion of r into the sorted list s after the elements
\* that do not compare greater (the sort is stable, also under reverse=True)
InsertSorted(s, r, key, sign) ==
  LET k == Cardinality({i \in 1..Len(s) :
                          SortKey(s[i], key, sign) <= SortKey(r, key, sign)})
  IN  SubSeq(s, 1, k) \o <<r>> \o SubSeq(s, k + 1, Len(s))

\* sorted(seq, key=lambda x: x[key]), with reverse=True for sign = -1
RECURSIVE Sorted(_, _, _)
Sorted(seq, key, sign) ==
  IF seq = << >>
    THEN << >>
    ELSE InsertSorted(Sorted(SubSeq(seq, 1, Len(seq) - 1), key, sign),
                      Last(seq), key, sign)

Called(method) == \E i \in 1..Len(sorted_input) : sorted_input[i].method = method

\* lines 312-324
FindBestBenfordConformity ==
  /\ spc = "return"
  /\ ~Called("find_best_benford_conformity")
  /\ LET valid_results == SelectSeq(results, HasMad)
     IN  /\ best' = Slice(Sorted(valid_results, "mad", 1), top_n)
         /\ sorted_input' = Append(sorted_input,
                                   [method |-> "find_best_benford_conformity",
                                    results |-> results,
                                    valid_results |-> valid_results])
  /\ UNCHANGED <<top_n, fastest>>
  /\ UNCHANGED <<gcVars, ldVars, hVars, aVars, sVars, scVars, pbVars, cbVars>>

\* lines 326-340
FindFastestMixing ==
  /\ spc = "return"
  /\ ~Called("find_fastest_mixing")
  /\ LET valid_results == SelectSeq(results, HasSpeed)
     IN  /\ fastest' = Slice(Sorted(valid_results, "digital_mixing_speed", -1),
                             top_n)
         /\ sorted_input' = Append(sorted_input,
                                   [method |-> "find_fastest_mixing",
                                    results |-> results,
                                    valid_results |-> valid_results])
  /\ UNCHANGED <<top_n, best>>
  /\ UNCHANGED <<gcVars, ldVars, hVars, aVars, sVars, scVars, pbVars, cbVars>>

RkIdle == top_n = 0 /\ best = << >> /\ fastest = << >> /\ sorted_input = << >>

(***************************************************************************)
(* The batch pipeline (src/automated_pipeline.py:142-206): create_batches, *)
(* the checkpoint file processed_cases.json and process_batch.  A worker   *)
(* is one call of process_batch, run in a process of its own (lines        *)
(* 243-247).                                                               *)
(***************************************************************************)
\* generalized_collatz(n0, a0, b0, c0, cap) as one value: the loop of
\* GcIterate run to its end
RECURSIVE GcLoop(_, _, _, _, _, _, _)
GcLoop(seq, cur, i, a0, b0, c0, cap) ==
  IF ~HasNextTurn(i, cap) \/ BreaksBeforeStep(cur)
    THEN seq
    ELSE LET next == TransformStep(cur, a0, b0, c0)
         IN  IF Contains(seq, next)
               THEN AppendStep(seq, next)
               ELSE GcLoop(AppendStep(seq, next), next, i + 1, a0, b0, c0, cap)

Trajectory(n0, a0, b0, c0, cap) ==
  IF RejectsInput(n0, a0)
    THEN << >>
    ELSE GcLoop(<<n0>>, n0, 0, a0, b0, c0, cap)

\* lines 142-149: the batches from `current` on
RECURSIVE BatchesFrom(_, _, _)
BatchesFrom(cur, end, batch_size) ==
  IF cur <= end
    THEN LET batch_end == Min(cur + batch_size - 1, end)
         IN  <<<<cur, batch_end>>>> \o BatchesFrom(batch_end + 1, end, batch_size)
    ELSE << >>

create_batches(start, end, batch_size) == BatchesFrom(start, end, batch_size)

\* The checkpoint file: absent, holding a JSON list, or without a complete
\* JSON text (opened for writing and not yet written, or written by two
\* processes at once).
Absent == [state |-> "absent", cases |-> {}]
Written(cases) == [state |-> "written", cases |-> cases]
Truncated == [state |-> "truncated", cases |-> {}]
Garbled == [state |-> "garbled", cases |-> {}]

\* mutant: an absent file makes the load fail
LoadProcessedCases_AbsentFails(file) ==
  IF file.state = "written"
    THEN [raises |-> "", value |-> file.cases]
    ELSE [raises |-> "FileNotFoundError", value |-> {}]

\* lines 152-157: the outcome of load_processed_cases
LoadProcessedCases(file) ==
  IF file.state = "absent" THEN [raises |-> "", value |-> {}]
  ELSE IF file.state = "written" THEN [raises |-> "", value |-> file.cases]
  ELSE [raises |-> "JSONDecodeError", value |-> {}]

\* mutant: the values of the checkpoint are processed again
Skips_OnlyOne(n0, cases) == n0 = 1

\* line 179
Skips(n0, cases) == n0 = 1 \/ n0 \in cases

\* lines 186-189: the digits of one trajectory; get_leading_digit is the one
\* of benford_analyzer.py and an exception leaves the loop
RECURSIVE BatchDigits(_)
BatchDigits(seq) ==
  IF seq = << >>
    THEN [raises |-> "", digits |-> << >>]
    ELSE LET term == Head(seq)
             rest == BatchDigits(Tail(seq))
         IN  IF term > 1
               THEN LET r == GetLeadingDigitLog(term)
                    IN  IF r.raises # ""
                          THEN [raises |-> r.raises, digits |-> << >>]
                          ELSE [raises |-> rest.raises,
                                digits |-> <<r.value>> \o rest.digits]
               ELSE rest

\* lines 172-173: the checkpoint is read and joined to the set the caller
\* passed; load_processed_cases is outside the try of the loop
PbLoad(w) ==
  /\ worker[w].pc = "load"
  /\ LET loaded == LoadProcessedCases(processed_file)
     IN  worker' =
           IF loaded.raises # ""
             THEN [worker EXCEPT ![w].pc = "raised"]
             ELSE [worker EXCEPT ![w].processed_cases = @ \cup loaded.value,
                                 ![w].pc = "loop"]
  /\ UNCHANGED <<processed_file, initial_file, generated>>
  /\ UNCHANGED <<gcVars, ldVars, hVars, aVars, sVars, scVars, rkVars, cbVars>>

\* lines 178-193: one turn of `for n in range(start, end + 1)`
PbProcessNext(w) ==
  /\ worker[w].pc = "loop"
  /\ worker[w].next <= worker[w].end
  /\ LET me == worker[w]
         n0 == me.next
         cfg == me.config
     IN  IF Skips(n0, me.processed_cases)
           THEN /\ worker' = [worker EXCEPT ![w].next = n0 + 1]
                /\ UNCHANGED generated
           ELSE LET seq == Trajectory(n0, cfg.param_a, cfg.param_b,
                                      cfg.param_c, cfg.max_iterations)
                    sampled == BatchDigits(seq)
                    ok == sampled.raises = ""
                IN  /\ worker' =
                         [worker EXCEPT
                            ![w].next = n0 + 1,
                            ![w].all_digits = @ \o sampled.digits,
                            ![w].n_processed = IF ok THEN @ + 1 ELSE @,
                            ![w].processed_cases =
                               IF ok THEN @ \cup {n0} ELSE @]
                    /\ generated' = [generated EXCEPT ![w] = @ \cup {n0}]
  /\ UNCHANGED <<processed_file, initial_file>>
  /\ UNCHANGED <<gcVars, ldVars, hVars, aVars, sVars, scVars, rkVars, cbVars>>

\* lines 160-161, called from line 196: open(file_path, "w") empties the file
PbSaveOpen(w) ==
  /\ worker[w].pc = "loop"
  /\ worker[w].next > worker[w].end
  /\ processed_file' = Truncated
  /\ worker' = [worker EXCEPT ![w].pc = "save"]
  /\ UNCHANGED <<initial_file, generated>>
  /\ UNCHANGED <<gcVars, ldVars, hVars, aVars, sVars, scVars, rkVars, cbVars>>

\* line 162: the set that json.dump writes
SavedCases(me) == me.processed_cases

\* lines 198-206: the dictionary process_batch returns
BatchResult(me) ==
  [batch_range |-> <<me.start, me.end>>,
   processed_count |-> me.n_processed,
   digit_counts |-> ObservedCounts(me.all_digits),
   total_digits |-> Len(me.all_digits)]

\* lines 162 and 198-206: json.dump writes from the start of the file and
\* process_batch returns.  Where another process has written since this one
\* opened the file, the text of the two lies over each other, and it is a
\* JSON text only if the new one is no shorter.
PbSaveWrite(w) ==
  /\ worker[w].pc = "save"
  /\ \/ processed_file' = Written(SavedCases(worker[w]))
     \/ /\ processed_file.state \in {"written", "garbled"}
        /\ processed_file' = Garbled
  /\ worker' = [worker EXCEPT ![w].pc = "done",
                              ![w].result = BatchResult(worker[w])]
  /\ UNCHANGED <<initial_file, generated>>
  /\ UNCHANGED <<gcVars, ldVars, hVars, aVars, sVars, scVars, rkVars, cbVars>>

NoResult == [batch_range |-> << >>]

\* the call of process_batch for one batch, as line 245 submits it: the set
\* passed is the one the caller loaded from the file
BatchCall(batch, config, loaded) ==
  [start |-> batch[1], end |-> batch[2], config |-> config,
   processed_cases |-> loaded, next |-> batch[1], n_processed |-> 0,
   all_digits |-> << >>, pc |-> "load", result |-> NoResult]

PbIdle ==
  /\ processed_file = Absent /\ initial_file = Absent
  /\ worker = << >> /\ generated = << >>

(***************************************************************************)
(* create_batches (src/automated_pipeline.py:142-149), step by step        *)
(***************************************************************************)
\* mutant: the last batch is not cut at `end`
BatchEnd_NotCut(cur, end, batch_size) == cur + batch_size - 1

\* line 146: batch_end = min(current + batch_size - 1, end)
BatchEnd(cur, end, batch_size) == Min(cur + batch_size - 1, end)

\* lines 145-148: one turn of `while current <= end`
CbTurn ==
  /\ cbpc = "loop"
  /\ cb_current <= cb_end
  /\ LET batch_end == BatchEnd(cb_current, cb_end, cb_batch_size)
     IN  /\ cb_batches' = Append(cb_batches, <<cb_current, batch_end>>)
         /\ cb_current' = batch_end + 1
  /\ UNCHANGED <<cb_start, cb_end, cb_batch_size, cbpc>>
  /\ UNCHANGED <<gcVars, ldVars, hVars, aVars, sVars, scVars, rkVars, pbVars>>

\* line 149: the loop has ended, `return batches`
CbReturn ==
  /\ cbpc = "loop"
  /\ cb_current > cb_end
  /\ cbpc' = "return"
  /\ UNCHANGED <<cb_start, cb_end, cb_batch_size, cb_batches, cb_current>>
  /\ UNCHANGED <<gcVars, ldVars, hVars, aVars, sVars, scVars, rkVars, pbVars>>

\* no call of create_batches is made
CbIdle ==
  /\ cb_start = 0 /\ cb_end = 0 /\ cb_batch_size = 0
  /\ cb_batches = << >> /\ cb_current = 0 /\ cbpc = "idle"

vars == <<gcVars, ldVars, hVars, aVars, sVars, scVars, rkVars, pbVars, cbVars>>

(***************************************************************************)
(* Spec: calls of generalized_collatz                                      *)
(***************************************************************************)
Init ==
  GcInit /\ LdIdle /\ HIdle /\ AIdle /\ SIdle /\ ScIdle /\ RkIdle /\ PbIdle
  /\ CbIdle

Next == GcEnter \/ GcIterate

Spec == Init /\ [][Next]_vars

\* the same calls, run to their end: the interpreter always takes the next
\* step of a call that has one
SpecTerminates == Init /\ [][Next]_vars /\ WF_vars(Next)

(***************************************************************************)
(* SpecDigit: both extractors, and generalized_collatz with the classical  *)
(* triple, applied to the same number                                      *)
(***************************************************************************)
InitDigit ==
  /\ number \in (-MaxNegative)..MaxNumber
  /\ logResult = NotCalled
  /\ strResult = NotCalled
  /\ n = number /\ a = 2 /\ b = 3 /\ c = 1
  /\ max_iterations = MaxIter
  /\ sequence = << >> /\ current = 0 /\ iter = 0 /\ pc = "call"
  /\ HIdle
  /\ AIdle
  /\ SIdle
  /\ ScIdle
  /\ RkIdle
  /\ PbIdle
  /\ CbIdle

NextDigit == ExtractLog \/ ExtractStr \/ GcEnter \/ GcIterate

SpecDigit == InitDigit /\ [][NextDigit]_vars

(***************************************************************************)
(* SpecHistogram: calls of analyze_leading_digits                          *)
(***************************************************************************)
HistSamples == {-10, 0, 1, 5, 10, 25, 400, 499, 990, 999, 1999}

\* src/tests/test_benford_analyzer.py:33
TestSequence == <<1, 2, 3, 10, 25, 400, 55, 6, 7, 8, 9>>

HistInputs ==
  UNION {[1..len -> HistSamples] : len \in 0..MaxHistLen} \cup {TestSequence}

InitHistogram ==
  /\ numbers \in HistInputs
  /\ digit_counts = EmptyCounter
  /\ hidx = 1
  /\ hpc = "loop"
  /\ GcIdle
  /\ LdIdle
  /\ AIdle
  /\ SIdle
  /\ ScIdle
  /\ RkIdle
  /\ PbIdle
  /\ CbIdle

NextHistogram == HistStep \/ HistReturn

SpecHistogram == InitHistogram /\ [][NextHistogram]_vars

(***************************************************************************)
(* SpecAnalyze: calls of analyze_single_parameter_set                      *)
(***************************************************************************)
InitAnalyze ==
  /\ a \in 0..MaxA /\ b \in (-MaxB)..MaxB /\ c \in (-MaxC)..MaxC
  /\ max_iterations \in {1, MaxIter}
  /\ initial_range \in ((-1)..MaxStart) \X (0..MaxEnd)
  /\ next_n = initial_range[1]
  /\ all_digits = << >>
  /\ analysis = NoAnalysis
  /\ conformity = NoConformity
  /\ trajectories = << >>
  /\ apc = "loop"
  /\ n = 0 /\ sequence = << >> /\ current = 0 /\ iter = 0 /\ pc = "idle"
  /\ LdIdle
  /\ HIdle
  /\ SIdle
  /\ ScIdle
  /\ RkIdle
  /\ PbIdle
  /\ CbIdle

NextAnalyze ==
  \/ AnalyzeNext
  \/ GcEnter
  \/ GcIterate
  \/ AnalyzeCollect
  \/ AnalyzeReturn
  \/ AnalyzeConformity

SpecAnalyze == InitAnalyze /\ [][NextAnalyze]_vars

(***************************************************************************)
(* SpecHoles: a scanner is built (lines 128-144) and its hole set filled   *)
(***************************************************************************)
InitHoles ==
  /\ center \in (0..MaxCenterA) \X ((-1)..MaxCenterB) \X ((-1)..MaxCenterC)
  /\ side_length \in 1..MaxSide
  /\ holes = {}
  /\ trivial_runs = << >>
  /\ GcIdle
  /\ LdIdle
  /\ HIdle
  /\ AIdle
  /\ ScNotStarted
  /\ spc = "build"
  /\ RkIdle
  /\ PbIdle
  /\ CbIdle

NextHoles == AddHole \/ AddHolesFromList \/ AddTrivialPatterns

SpecHoles == InitHoles /\ [][NextHoles]_vars

(***************************************************************************)
(* SpecScan: a scanner is built, its hole set filled, scan_cube run and    *)
(* its results ranked                                                      *)
(***************************************************************************)
ScanCenters == {<<2, 3, 1>>, <<1, 0, 0>>}

ScanSides == {1, 3}

InitScan ==
  /\ center \in ScanCenters
  /\ side_length \in ScanSides
  /\ holes = {}
  /\ trivial_runs = << >>
  /\ ScNotStarted
  /\ spc = "build"
  /\ initial_range \in {1} \X (1..MaxScanEnd)
  /\ max_iterations = MaxScanIter
  /\ top_n \in 0..MaxTopN
  /\ best = << >> /\ fastest = << >> /\ sorted_input = << >>
  /\ n = 0 /\ a = 0 /\ b = 0 /\ c = 0
  /\ sequence = << >> /\ current = 0 /\ iter = 0 /\ pc = "idle"
  /\ next_n = 0 /\ all_digits = << >> /\ analysis = NoAnalysis
  /\ conformity = NoConformity /\ trajectories = << >> /\ apc = "idle"
  /\ LdIdle
  /\ HIdle
  /\ PbIdle
  /\ CbIdle

NextScan ==
  \/ AddHole
  \/ AddHolesFromList
  \/ AddTrivialPatterns
  \/ ScanStart
  \/ ScanNext
  \/ AnalyzeNext
  \/ GcEnter
  \/ GcIterate
  \/ AnalyzeCollect
  \/ AnalyzeReturn
  \/ ScanCollect
  \/ ScanRaise
  \/ ScanReturn
  \/ FindBestBenfordConformity
  \/ FindFastestMixing

SpecScan == InitScan /\ [][NextScan]_vars

(***************************************************************************)
(* SpecRank: the rankings of a given list of records                       *)
(***************************************************************************)
\* MADs and mixing speeds of the records given: numbers, equal ones among
\* them, a nan MAD, no speed, an infinite speed
RankSamples ==
  {[parameters |-> <<2, 3, 1>>, mad |-> Num(120000),
    digital_mixing_speed |-> Num(9000)],
   [parameters |-> <<2, 3, 2>>, mad |-> Num(120000),
    digital_mixing_speed |-> Num(4000)],
   [parameters |-> <<3, 3, 1>>, mad |-> Num(45000),
    digital_mixing_speed |-> Num(9000)],
   [parameters |-> <<3, 4, 1>>, mad |-> NaN, digital_mixing_speed |-> None],
   [parameters |-> <<3, 4, 2>>, mad |-> Num(0), digital_mixing_speed |-> None],
   [parameters |-> <<4, 4, 1>>, mad |-> Num(60000),
    digital_mixing_speed |-> Inf],
   [parameters |-> <<4, 4, 2>>]}

InitRank ==
  /\ results \in UNION {[1..len -> RankSamples] : len \in 0..MaxResults}
  /\ top_n \in 0..MaxTopN
  /\ best = << >> /\ fastest = << >> /\ sorted_input = << >>
  /\ scan_pos = 0 /\ scanned = 0 /\ skipped = 0
  /\ invoked = << >> /\ failed = << >>
  /\ spc = "return"
  /\ GcIdle
  /\ LdIdle
  /\ HIdle
  /\ AIdle
  /\ SIdle
  /\ PbIdle
  /\ CbIdle

NextRank == FindBestBenfordConformity \/ FindFastestMixing

SpecRank == InitRank /\ [][NextRank]_vars

(***************************************************************************)
(* SpecPipeline: the batches of create_batches, each handed to a           *)
(* process_batch of its own                                                *)
(***************************************************************************)
\* values the checkpoint may hold when the run begins
CheckpointValues == {2, 4, 9}

\* (param_a, param_b, param_c) of the test and of RuntimeConfig's defaults
PipelineTriples == {<<2, 3, 1>>, <<2, 7, 1>>}

InitPipeline ==
  \E start \in 1..MaxBatchStart, end \in 0..MaxBatchEnd,
     batch_size \in 1..MaxBatchEnd, t \in PipelineTriples,
     file \in {Absent} \cup {Written(cs) : cs \in SUBSET CheckpointValues} :
    LET batches == create_batches(start, end, batch_size)
        config == [param_a |-> t[1], param_b |-> t[2], param_c |-> t[3],
                   max_iterations |-> MaxIter]
        loaded == LoadProcessedCases(file).value
    IN  /\ Len(batches) <= MaxWorkers
        /\ processed_file = file
        /\ initial_file = file
        /\ worker = [w \in 1..Len(batches) |->
                       BatchCall(batches[w], config, loaded)]
        /\ generated = [w \in 1..Len(batches) |-> {}]
        /\ GcIdle
        /\ LdIdle
        /\ HIdle
        /\ AIdle
        /\ SIdle
        /\ ScIdle
        /\ RkIdle
        /\ CbIdle

NextPipeline ==
  \E w \in DOMAIN worker :
    PbLoad(w) \/ PbProcessNext(w) \/ PbSaveOpen(w) \/ PbSaveWrite(w)

SpecPipeline == InitPipeline /\ [][NextPipeline]_vars

(***************************************************************************)
(* SpecBatches: calls of create_batches, run to their end                  *)
(***************************************************************************)
InitBatches ==
  /\ cb_start \in -1..MaxBatchStart
  /\ cb_end \in -1..MaxBatchEnd
  /\ cb_batch_size \in 1..MaxBatchEnd
  /\ cb_batches = << >>
  /\ cb_current = cb_start
  /\ cbpc = "loop"
  /\ GcIdle
  /\ LdIdle
  /\ HIdle
  /\ AIdle
  /\ SIdle
  /\ ScIdle
  /\ RkIdle
  /\ PbIdle

NextBatches == CbTurn \/ CbReturn

SpecBatches == InitBatches /\ [][NextBatches]_vars /\ WF_vars(NextBatches)

(***************************************************************************)
(* Properties of generalized_collatz                                       *)
(***************************************************************************)
Returned == pc = "return"

\* C1: generalized_collatz returns the empty trajectory (and raises nothing:
\* the modulus a = 0 is never divided by) whenever n <= 0 or a <= 0, and for
\* n >= 1 and a >= 1 returns a non-empty trajectory whose first element is n.
C1_EmptyOrStartsAtN ==
  Returned =>
    /\ (n <= 0 \/ a <= 0) => sequence = << >>
    /\ (n >= 1 /\ a >= 1) => (Len(sequence) >= 1 /\ sequence[1] = n)

\* a call with a valid start and the modulus 0 has returned the empty list
C1_Witness == Returned /\ n >= 1 /\ a = 0 /\ sequence = << >>

\* The standard Collatz orbit of x, cut at the value 1 or after `fuel`
\* steps: the orbit of the first half of the steps, followed from its last
\* value by the orbit of the other half.
RECURSIVE StandardOrbit(_, _)
StandardOrbit(x, fuel) ==
  IF x = 1 \/ fuel = 0
    THEN <<x>>
    ELSE IF fuel = 1
    THEN <<x, IF x % 2 = 0 THEN x \div 2 ELSE 3 * x + 1>>
    ELSE LET half == fuel \div 2
             left == StandardOrbit(x, half)
         IN  IF Last(left) = 1
               THEN left
               ELSE left \o Tail(StandardOrbit(Last(left), fuel - half))

\* C2: for (a,b,c) = (2,3,1) and n >= 1 whose orbit reaches 1 within the
\* iteration cap and under the magnitude ceiling, the trajectory is the
\* standard Collatz orbit of n: n first, x/2 after an even x, 3x+1 after an
\* odd x (no shortcut division), 1 last.
C2_ClassicalOrbit ==
  (Returned /\ n >= 1 /\ a = 2 /\ b = 3 /\ c = 1) =>
    LET orbit == StandardOrbit(n, max_iterations)
    IN  (/\ Last(orbit) = 1
         /\ \A i \in 1..Len(orbit) : orbit[i] <= MagnitudeCeiling)
        => sequence = orbit

\* the trajectory of 6 is the one the tests expect
C2_Witness ==
  /\ Returned /\ n = 6 /\ a = 2 /\ b = 3 /\ c = 1
  /\ sequence = <<6, 3, 10, 5, 16, 8, 4, 2, 1>>

\* No stop condition fires in the next k turns from x, the values in `seen`
\* being the earlier elements of the trajectory.
RECURSIVE RunsFree(_, _, _)
RunsFree(x, seen, k) ==
  IF k = 0
    THEN TRUE
    ELSE /\ x # 1
         /\ x <= MagnitudeCeiling
         /\ LET y == TransformStep(x, a, b, c)
            IN  /\ y \notin (seen \cup {x})
                /\ RunsFree(y, seen \cup {x}, k - 1)

\* C3: for n >= 1, a >= 1 and cap M >= 0 the trajectory has at most M+1
\* elements, and exactly M+1 (the seed and M computed steps) when none of
\* the first M steps stops on the value 1, on the ceiling or on a repeat.
C3_LengthWithinCap ==
  (Returned /\ n >= 1 /\ a >= 1) =>
    /\ Len(sequence) <= max_iterations + 1
    /\ RunsFree(n, {}, max_iterations) => Len(sequence) = max_iterations + 1

\* 27 under the classical triple with the cap 5: six elements, 27 to 31
C3_Witness ==
  /\ Returned /\ n = 27 /\ a = 2 /\ b = 3 /\ c = 1 /\ max_iterations = 5
  /\ Len(sequence) = 6 /\ sequence[1] = 27 /\ Last(sequence) = 31

AllPositive(seq) == \A i \in 1..Len(seq) : seq[i] > 0

\* C4 as stated: every element of every trajectory for n >= 1, a >= 1 and
\* any integers b, c is a positive integer.
C4_Original == (Returned /\ n >= 1 /\ a >= 1) => AllPositive(sequence)

\* C4 amended: every element of every trajectory for n >= 1, a >= 1 and
\* b >= 0, c >= 0 not both zero is a positive integer.
C4_PositiveForNonNegativeBC ==
  (Returned /\ n >= 1 /\ a >= 1 /\ b >= 0 /\ c >= 0 /\ b + c >= 1)
    => AllPositive(sequence)

\* a trajectory with b, c >= 0 that took a transformation step with shortcut
C4_Witness ==
  /\ Returned /\ n >= 1 /\ a = 3 /\ b = 2 /\ c = 2
  /\ Len(sequence) >= 3
  /\ \E i \in 1..(Len(sequence) - 1) : sequence[i] % a # 0
  /\ AllPositive(sequence)

(***************************************************************************)
(* Properties of the leading-digit extractors                              *)
(***************************************************************************)
DecimalExponents == 0..8

\* d is the most significant decimal digit of x
IsLeadingDigit(d, x) ==
  /\ d \in 1..9
  /\ \E k \in DecimalExponents : d * 10 ^ k <= x /\ x < (d + 1) * 10 ^ k

\* C5: for every positive integer n, get_leading_digit(n) returns the most
\* significant decimal digit of n, d in 1..9 with d*10^k <= n < (d+1)*10^k,
\* both in the logarithm-based and in the string-based extractor.
C5_LeadingDigitExact ==
  number >= 1 =>
    /\ logResult # NotCalled =>
         (logResult.raises = "" /\ IsLeadingDigit(logResult.value, number))
    /\ strResult # NotCalled =>
         (strResult.raises = "" /\ IsLeadingDigit(strResult.value, number))

\* C6: get_leading_digit(n) fails with ValueError and returns no digit for
\* every n <= 0 (both extractors), while generalized_collatz returns the
\* empty trajectory for the same invalid start.
C6_NonPositiveRaises ==
  number <= 0 =>
    /\ logResult # NotCalled => logResult = Raises("ValueError")
    /\ strResult # NotCalled => strResult = Raises("ValueError")
    /\ Returned => sequence = << >>

\* all three have been called with 0
C6_Witness ==
  /\ number = 0
  /\ logResult = Raises("ValueError")
  /\ strResult = Raises("ValueError")
  /\ Returned /\ sequence = << >>

(***************************************************************************)
(* Properties of analyze_leading_digits                                    *)
(***************************************************************************)
\* the positions of seq that hold a positive number with leading digit d
PositionsWithDigit(seq, d) ==
  {i \in 1..Len(seq) : seq[i] > 0 /\ IsLeadingDigit(d, seq[i])}

RECURSIVE SumOver(_, _)
SumOver(counts, keys) ==
  IF keys = {}
    THEN 0
    ELSE LET k == CHOOSE x \in keys : TRUE
         IN  counts[k] + SumOver(counts, keys \ {k})

\* C7: for any list of integers analyze_leading_digits returns a histogram
\* whose keys are exactly 1..9, each count the number of positive elements
\* with that leading digit, the counts summing to the number of positive
\* elements.
C7_HistogramCounts ==
  hpc = "return" =>
    /\ DOMAIN digit_counts = 1..9
    /\ \A d \in 1..9 :
         digit_counts[d] = Cardinality(PositionsWithDigit(numbers, d))
    /\ SumOver(digit_counts, DOMAIN digit_counts)
         = Cardinality({i \in 1..Len(numbers) : numbers[i] > 0})

(***************************************************************************)
(* Properties of analyze_single_parameter_set                              *)
(***************************************************************************)
\* the number of terms greater than 1 in the logged trajectories
RECURSIVE TermsAboveOne(_)
TermsAboveOne(log) ==
  IF log = << >>
    THEN 0
    ELSE Cardinality({i \in 1..Len(Head(log).terms) : Head(log).terms[i] > 1})
         + TermsAboveOne(Tail(log))

\* C8: the histogram of analyze_single_parameter_set has all nine digit keys,
\* and its counts sum to, and total_samples equals, the number of trajectory
\* terms greater than 1 over the trajectories of all starting values of
\* [start, end] other than 1; terms equal to 1, non-positive terms and the
\* starting value 1 contribute nothing.
C8_HistogramSumsQualifyingTerms ==
  apc = "return" =>
    /\ DOMAIN analysis.digit_frequencies = 1..9
    /\ {trajectories[i].start : i \in 1..Len(trajectories)}
         = (initial_range[1]..initial_range[2]) \ {1}
    /\ Len(trajectories)
         = Cardinality((initial_range[1]..initial_range[2]) \ {1})
    /\ analysis.total_samples = TermsAboveOne(trajectories)
    /\ SumOver(analysis.digit_frequencies, 1..9) = TermsAboveOne(trajectories)

\* a finished analysis over a range that holds 1, with samples, in which a
\* trajectory held a non-positive term and one ended in 1
C8_Witness ==
  /\ apc = "return"
  /\ initial_range[1] <= 1 /\ 1 <= initial_range[2]
  /\ analysis.total_samples > 0
  /\ \E i \in 1..Len(trajectories) :
       \E j \in 1..Len(trajectories[i].terms) : trajectories[i].terms[j] <= 0
  /\ \E i \in 1..Len(trajectories) :
       \E j \in 1..Len(trajectories[i].terms) : trajectories[i].terms[j] = 1

(***************************************************************************)
(* Properties of add_trivial_patterns                                      *)
(***************************************************************************)
\* the scanner's cuboid
Cuboid ==
  {t \in (ARange[1]..ARange[2]) \X (BRange[1]..BRange[2])
           \X (CRange[1]..CRange[2]) : TRUE}

\* t satisfies at least one of the five rules
MatchesARule(t) ==
  \/ t[1] = 1
  \/ t[2] = 0 /\ t[3] = 0
  \/ t[2] = 1 /\ t[3] = 0
  \/ t[3] = 0 /\ \E k \in (-Abs(t[2]))..Abs(t[2]) : t[2] = k * t[1]
  \/ t[2] < 0 /\ t[3] < 0

\* C9: add_trivial_patterns adds to the hole set exactly the triples of the
\* cuboid with a = 1, or b = 0 and c = 0, or b = 1 and c = 0, or c = 0 and b
\* divisible by a, or b < 0 and c < 0, and returns their number; (1,5,3) is
\* classified trivial and (5,5,1) is not.
C9_ExactlyTheTrivialTriples ==
  \A i \in 1..Len(trivial_runs) :
    LET run == trivial_runs[i]
        trivial == {t \in Cuboid : MatchesARule(t)}
    IN  /\ run.after = run.before \cup trivial
        /\ run.returned = Cardinality(trivial)
        /\ <<1, 5, 3>> \in Cuboid => <<1, 5, 3>> \in run.after
        /\ <<5, 5, 1>> \notin run.before => <<5, 5, 1>> \notin run.after

\* a run on a cuboid that holds (1,5,3) and (5,5,1), after a manual hole
C9_Witness ==
  /\ Len(trivial_runs) >= 1
  /\ {<<1, 5, 3>>, <<5, 5, 1>>} \subseteq Cuboid
  /\ trivial_runs[1].before = {<<2, 3, 1>>}
  /\ <<1, 5, 3>> \in holes
  /\ <<5, 5, 1>> \notin holes
  /\ trivial_runs[1].returned > 0

\* C10: running add_trivial_patterns twice on the same scanner leaves the
\* hole set after the second run identical to the hole set after the first,
\* and both runs return the same count.
C10_SecondRunChangesNothing ==
  \A i \in 1..Len(trivial_runs) : \A j \in 1..Len(trivial_runs) :
    (j = i + 1 /\ trivial_runs[j].before = trivial_runs[i].after) =>
      /\ trivial_runs[j].after = trivial_runs[i].after
      /\ trivial_runs[j].returned = trivial_runs[i].returned

\* two runs in a row on a scanner with trivial triples
C10_Witness ==
  /\ Len(trivial_runs) = 2
  /\ trivial_runs[2].before = trivial_runs[1].after
  /\ trivial_runs[1].after # trivial_runs[1].before
  /\ trivial_runs[2].returned > 0

(***************************************************************************)
(* Properties of scan_cube                                                 *)
(***************************************************************************)
\* the parameter triples of a list of records, in its order
ParametersOf(records) == [i \in 1..Len(records) |-> records[i].parameters]

Elements(seq) == {seq[i] : i \in 1..Len(seq)}

\* C11: whatever hole set add_hole, add_holes_from_list and
\* add_trivial_patterns have built before scan_cube starts, no record of the
\* collection scan_cube builds has a triple of the hole set,
\* analyze_single_parameter_set is never invoked for such a triple, and
\* scan_cube leaves the hole set as it is.
C11_HolesNeverAnalyzed ==
  /\ [](spc \in {"loop", "analyzing", "return"} =>
          /\ Elements(ParametersOf(results)) \cap holes = {}
          /\ Elements(invoked) \cap holes = {})
  /\ [][(spc \in {"loop", "analyzing"}) => (holes' = holes)]_vars

\* a finished scan of a cube that holds a manual hole and trivial triples,
\* all of them in the hole set, and that has returned records
C11_Witness ==
  /\ spc = "return"
  /\ <<2, 3, 1>> \in holes /\ <<2, 3, 1>> \in Elements(CubeList)
  /\ Len(trivial_runs) >= 1
  /\ Cardinality(holes) >= 3
  /\ Len(results) >= 2

\* t comes before u in the lexicographic order of (a, b, c)
LexLess(t, u) ==
  \/ t[1] < u[1]
  \/ t[1] = u[1] /\ t[2] < u[2]
  \/ t[1] = u[1] /\ t[2] = u[2] /\ t[3] < u[3]

\* the cube of half-width h around the center, a clipped to a >= 1
ClippedCube(h) ==
  {t \in (Max(1, center[1] - h)..(center[1] + h))
          \X ((center[2] - h)..(center[2] + h))
          \X ((center[3] - h)..(center[3] + h)) : TRUE}

\* C12: for an odd side length L and h = (L-1)/2, when no triple fails,
\* scan_cube returns exactly one record for each triple of the clipped cube
\* that is not in the hole set, the records in ascending lexicographic order
\* of (a, b, c), and no triple with a < 1 is visited.
C12_OneRecordPerTripleInOrder ==
  (spc = "return" /\ side_length % 2 = 1 /\ failed = << >>) =>
    LET expected == ClippedCube((side_length - 1) \div 2) \ holes
        params == ParametersOf(results)
    IN  /\ Elements(params) = expected
        /\ Len(params) = Cardinality(expected)
        /\ \A i \in 1..Len(params) : \A j \in 1..Len(params) :
             i < j => LexLess(params[i], params[j])
        /\ \A i \in 1..Len(invoked) : invoked[i][1] >= 1
        /\ scanned + skipped = Cardinality(ClippedCube((side_length - 1) \div 2))

\* a finished scan, without failure, of the cube of side 3 around (1,0,0),
\* whose a-range is clipped, with holes inside the cube
C12_Witness ==
  /\ spc = "return" /\ failed = << >>
  /\ center = <<1, 0, 0>> /\ side_length = 3
  /\ holes \cap Elements(CubeList) # {}
  /\ Len(results) >= 2
  /\ skipped >= 1

\* C13: if the analysis of a triple fails with an exception, scan_cube goes
\* on: every later triple outside the hole set is still analyzed, and the
\* collection returned holds the records of all the triples that succeeded,
\* before and after the failing one, in enumeration order.
C13_FailureDoesNotAbort ==
  spc = "return" =>
    LET NotHole(t) == t \notin holes
        Succeeded(t) == t \notin Elements(failed)
    IN  /\ invoked = SelectSeq(CubeList, NotHole)
        /\ ParametersOf(results) = SelectSeq(invoked, Succeeded)

\* a finished scan in which the analysis of (2,3,1) failed, with records of
\* triples before and after it
C13_Witness ==
  /\ spc = "return"
  /\ failed = <<<<2, 3, 1>>>>
  /\ \E i \in 1..Len(results) : LexLess(results[i].parameters, <<2, 3, 1>>)
  /\ \E i \in 1..Len(results) : LexLess(<<2, 3, 1>>, results[i].parameters)

(***************************************************************************)
(* Properties of the rankings                                              *)
(***************************************************************************)
\* the record has a MAD that is a number
DefinedMad(r) == "mad" \in DOMAIN r /\ r.mad[1] = "num"

\* the record has a mixing speed that is a finite number
DefinedSpeed(r) ==
  "digital_mixing_speed" \in DOMAIN r /\ r.digital_mixing_speed[1] = "num"

\* how often the record occurs in the list
Occurrences(seq, r) == Cardinality({i \in 1..Len(seq) : seq[i] = r})

\* C14: find_best_benford_conformity(results, N) returns the records of
\* results with a defined (non-NaN) MAD, sorted by ascending MAD, records of
\* equal MAD in their order in results, cut to the first
\* min(N, number of valid records).
C14_BestIsStableAscendingTopN ==
  Called("find_best_benford_conformity") =>
    LET valid == {i \in 1..Len(results) : DefinedMad(results[i])}
        Before(j, i) ==
          \/ results[j].mad[2] < results[i].mad[2]
          \/ results[j].mad[2] = results[i].mad[2] /\ j < i
        Rank(i) == 1 + Cardinality({j \in valid : Before(j, i)})
    IN  /\ Len(best) = IF top_n <= Cardinality(valid)
                         THEN top_n ELSE Cardinality(valid)
        /\ \A i \in valid : Rank(i) <= Len(best) => best[Rank(i)] = results[i]

\* two records of equal MAD are returned in the order they were given in,
\* from a list that also holds a record with a nan MAD
C14_Witness ==
  /\ Called("find_best_benford_conformity")
  /\ Len(best) = 2
  /\ best[1].mad = best[2].mad /\ best[1] # best[2]
  /\ \E i \in 1..Len(results) : \E j \in 1..Len(results) :
       i < j /\ results[i] = best[1] /\ results[j] = best[2]
  /\ \E i \in 1..Len(results) : Get(results[i], "mad") = NaN

\* C15: find_fastest_mixing(results, N) returns only records whose mixing
\* speed is defined (none with the speed None or infinite), sorted by
\* descending speed, cut to the first min(N, number of valid records); and
\* neither ranking reorders or modifies the list results it is given.
C15_FastestIsDescendingTopN ==
  /\ Called("find_fastest_mixing") =>
       LET valid == {i \in 1..Len(results) : DefinedSpeed(results[i])}
           Speed(r) == r.digital_mixing_speed[2]
       IN  /\ \A k \in 1..Len(fastest) : DefinedSpeed(fastest[k])
           /\ \A k \in 1..Len(fastest) :
                Occurrences(fastest, fastest[k])
                  <= Occurrences(results, fastest[k])
           /\ \A k \in 1..(Len(fastest) - 1) :
                Speed(fastest[k]) >= Speed(fastest[k + 1])
           /\ Len(fastest) = IF top_n <= Cardinality(valid)
                                THEN top_n ELSE Cardinality(valid)
           /\ \A i \in valid : \A k \in 1..Len(fastest) :
                Speed(results[i]) > Speed(fastest[k]) =>
                  \E m \in 1..Len(fastest) : fastest[m] = results[i]
  /\ \A k \in 1..Len(sorted_input) : sorted_input[k].results = results

\* both rankings have run on a list with an infinite speed, a missing speed
\* and two finite speeds given in ascending order
C15_Witness ==
  /\ Called("find_fastest_mixing")
  /\ Called("find_best_benford_conformity")
  /\ Len(fastest) = 2
  /\ fastest[1].digital_mixing_speed[2] > fastest[2].digital_mixing_speed[2]
  /\ \E i \in 1..Len(results) : \E j \in 1..Len(results) :
       i < j /\ results[i] = fastest[2] /\ results[j] = fastest[1]
  /\ \E i \in 1..Len(results) : Get(results[i], "digital_mixing_speed") = Inf

(***************************************************************************)
(* Properties of the degenerate statistics                                 *)
(***************************************************************************)
\* C16: for a histogram with no samples the conformity analysis reports the
\* MAD 1.0 and the p-value 1.0 and raises nothing, both in
\* analyze_conformity and in the MAD that analyze_single_parameter_set
\* records, so that no nan MAD comes to a ranking.
C16_ZeroSamplesGiveSentinels ==
  (apc = "return" /\ analysis.total_samples = 0) =>
    /\ analysis.mad = Num(10 ^ 6)
    /\ conformity # NoConformity =>
         (conformity.mad = Num(10 ^ 6) /\ conformity.p_value = Num(10 ^ 6))

(***************************************************************************)
(* Properties of process_batch and the checkpoint                          *)
(***************************************************************************)
\* every call of process_batch has come to its end
AllFinished == \A w \in DOMAIN worker : worker[w].pc \in {"done", "raised"}

\* the starting values the workers have processed
ProcessedByAll == UNION {generated[w] : w \in DOMAIN worker}

\* C17: for any interleaving of two or more process_batch workers over
\* disjoint ranges and one checkpoint file, once all have finished the file
\* holds every starting value any of them processed and every value it held
\* before: no save loses what another worker wrote.
C17_NoLostCheckpointEntries ==
  (Len(worker) >= 2 /\ AllFinished) =>
    /\ processed_file.state = "written"
    /\ initial_file.cases \cup ProcessedByAll \subseteq processed_file.cases

\* C18: in a run with one worker, process_batch never generates a trajectory
\* for the starting value 1 or for a value of the checkpoint, and when it
\* has returned the checkpoint is the union of the checkpoint read at the
\* start and the values of the range newly processed; no entry persisted
\* before is removed.
C18_SingleWorkerCheckpoint ==
  Len(worker) = 1 =>
    LET me == worker[1]
        before == initial_file.cases
    IN  /\ generated[1] \cap ({1} \cup before) = {}
        /\ me.pc = "done" =>
             /\ generated[1] = (me.start..me.end) \ ({1} \cup before)
             /\ processed_file = Written(before \cup generated[1])
        /\ processed_file.state = "written" =>
             before \subseteq processed_file.cases

\* the range [1,5] with the checkpoint {2}: exactly {2,3,4,5} is persisted
C18_Witness ==
  /\ Len(worker) = 1
  /\ worker[1].start = 1 /\ worker[1].end = 5
  /\ initial_file = Written({2})
  /\ worker[1].pc = "done"
  /\ generated[1] = {3, 4, 5}
  /\ processed_file = Written({2, 3, 4, 5})

\* C19: process_batch over [start, end] reports as processed_count the
\* number of starting values of the range other than 1: for the range [1,5]
\* with 2 in the checkpoint, 4.
C19_CountsAllButOne ==
  \A w \in DOMAIN worker :
    worker[w].pc = "done" =>
      worker[w].result.processed_count
        = Cardinality((worker[w].start..worker[w].end) \ {1})

(***************************************************************************)
(* The step between consecutive elements of a trajectory                   *)
(***************************************************************************)
RECURSIVE IsPowerOf(_, _)
IsPowerOf(q, a0) == q = 1 \/ (q > 1 /\ q % a0 = 0 /\ IsPowerOf(q \div a0, a0))

\* y is what is left of m once every factor a0 is divided out
FullyDivided(m, y, a0) ==
  LET abs(v) == IF v < 0 THEN -v ELSE v
  IN  /\ m # 0 /\ y # 0 /\ (m > 0) = (y > 0)
      /\ y % a0 # 0
      /\ abs(m) % abs(y) = 0
      /\ IsPowerOf(abs(m) \div abs(y), a0)

ConsecutivePairs(P(_, _)) ==
  \A i \in 1..(Len(sequence) - 1) : P(sequence[i], sequence[i + 1])

StepAsStated(x, y) ==
  IF x % a = 0
    THEN y * a = x
    ELSE IF a = 2 /\ b = 3 /\ c = 1
           THEN y = b * x + c
           ELSE FullyDivided(b * x + c, y, a)

StepAmended(x, y) ==
  IF x % a = 0
    THEN y * a = x
    ELSE IF (a = 2 /\ b = 3 /\ c = 1) \/ b * x + c <= 0
           THEN y = b * x + c
           ELSE FullyDivided(b * x + c, y, a)

Positions(seq, v) == {i \in 1..Len(seq) : seq[i] = v}

\* C21: generalized_collatz stops at the first computed value that already
\* occurs in the trajectory and appends it once more if and only if it
\* differs from the last element; so all elements but possibly the last are
\* pairwise distinct and a trajectory never ends with two equal consecutive
\* elements.
C21_StopsAtFirstRepeat ==
  /\ [](/\ \A i \in 1..(Len(sequence) - 1) : Positions(sequence, sequence[i])
                                               \subseteq {i, Len(sequence)}
        /\ Len(sequence) >= 2 =>
             sequence[Len(sequence)] # sequence[Len(sequence) - 1]
        /\ (Len(sequence) >= 2 /\ Positions(sequence, Last(sequence))
                                    # {Len(sequence)}) => Returned)
  /\ [][iter' = iter + 1 =>
          IF current' \in {sequence[i] : i \in 1..Len(sequence)}
            THEN /\ pc' = "return"
                 /\ sequence' = IF current' # Last(sequence)
                                  THEN sequence \o <<current'>>
                                  ELSE sequence
            ELSE sequence' = sequence \o <<current'>>]_vars

\* a returned trajectory whose last element repeats an earlier one that is
\* not its predecessor
C21_Witness ==
  /\ Returned /\ Len(sequence) >= 4
  /\ \E i \in 1..(Len(sequence) - 2) : sequence[i] = Last(sequence)

\* C22: generalized_collatz computes no further step once the current value
\* exceeds the magnitude ceiling: the exceeding value is the last element,
\* and no other element of a trajectory exceeds the ceiling.
C22_NoStepBeyondCeiling ==
  /\ [](\A i \in 1..(Len(sequence) - 1) : sequence[i] <= MagnitudeCeiling)
  /\ [][iter' = iter + 1 => current <= MagnitudeCeiling]_vars
  /\ []((Returned /\ current > MagnitudeCeiling) =>
          Last(sequence) = current)

\* a trajectory that the ceiling stopped before the iteration cap
C22_Witness ==
  /\ Returned /\ Len(sequence) >= 3
  /\ Last(sequence) > MagnitudeCeiling
  /\ iter < max_iterations

\* C23: in every trajectory of generalized_collatz (any a >= 1, b, c, cap)
\* the value 1 occurs only as the last element: no step is computed from 1,
\* and for n = 1 the trajectory is exactly [1].
C23_OneIsLast ==
  /\ [](\A i \in 1..(Len(sequence) - 1) : sequence[i] # 1)
  /\ [][iter' = iter + 1 => current # 1]_vars
  /\ []((Returned /\ n = 1 /\ a >= 1) => sequence = <<1>>)

\* a trajectory that reached 1 before the iteration cap, with a triple for
\* which a step from 1 would leave 1
C23_Witness ==
  /\ Returned /\ Len(sequence) >= 3
  /\ Last(sequence) = 1
  /\ iter < max_iterations
  /\ TransformStep(1, a, b, c) # 1

(***************************************************************************)
(* The counts scan_cube reports                                            *)
(***************************************************************************)
\* C24: when scan_cube completes it has reported a count of skipped triples
\* and a count of failed triples: skipped is the number of cube triples in
\* the hole set, failed the number of cube triples whose analysis raised,
\* and skipped + failed + the number of records is the size of the cube.
C24_ReportsSkippedAndFailed ==
  spc = "return" =>
    /\ {"skipped", "failed"} \subseteq DOMAIN ScanReport
    /\ ScanReport.skipped
         = Cardinality({i \in 1..Len(CubeList) : CubeList[i] \in holes})
    /\ ScanReport.failed = Len(failed)
    /\ ScanReport.skipped + ScanReport.failed + Len(results) = Len(CubeList)

(***************************************************************************)
(* The mixing speed of a record                                            *)
(***************************************************************************)
\* C25: in every record of analyze_single_parameter_set the digital mixing
\* speed is a finite number, (1/MAD) * log10(total samples), exactly when
\* MAD > 0 and total samples > 0, and is None otherwise: never infinity or
\* nan, and nothing is raised.
C25_SpeedDefinedIffMadAndSamples ==
  apc = "return" =>
    LET mad == analysis.mad
        total == analysis.total_samples
        speed == analysis.digital_mixing_speed
    IN  IF mad[1] = "num" /\ mad[2] > 0 /\ total > 0
          THEN /\ speed[1] = "num"
               /\ speed[2] = ((10 ^ 9 \div mad[2]) * Log10Milli(total)) \div 1000
               /\ speed[2] >= 0
               /\ (speed[2] = 0) = (total = 1)
          ELSE speed = None

\* a record with ten samples or more, a positive MAD and a positive speed
C25_Witness ==
  /\ apc = "return"
  /\ analysis.total_samples >= 10
  /\ analysis.mad[1] = "num" /\ analysis.mad[2] > 0
  /\ analysis.digital_mixing_speed[1] = "num"
  /\ analysis.digital_mixing_speed[2] > 0

(***************************************************************************)
(* The absent checkpoint                                                   *)
(***************************************************************************)
\* C26: load_processed_cases on an absent checkpoint file returns the empty
\* set without failing, and a process_batch started with no checkpoint file
\* processes every starting value of its range other than 1 and then
\* creates the checkpoint holding exactly those values.
C26_AbsentCheckpointIsEmpty ==
  (Len(worker) = 1 /\ initial_file = Absent) =>
    LET me == worker[1]
        all == (me.start..me.end) \ {1}
    IN  /\ me.pc # "raised"
        /\ me.pc = "load" => processed_file = Absent
        /\ (me.pc = "loop" /\ me.next = me.start) => me.processed_cases = {}
        /\ me.pc = "loop" =>
             /\ processed_file = Absent
             /\ generated[1] = (me.start..(me.next - 1)) \ {1}
        /\ me.pc = "done" =>
             /\ generated[1] = all
             /\ me.processed_cases = all
             /\ processed_file = Written(all)

\* the call for the range [1,5] has returned and has created the file
C26_Witness ==
  /\ Len(worker) = 1 /\ initial_file = Absent
  /\ worker[1].start = 1 /\ worker[1].end = 5
  /\ worker[1].pc = "done"
  /\ processed_file = Written({2, 3, 4, 5})

(***************************************************************************)
(* Records are committed after the full pass                               *)
(***************************************************************************)
\* the digits of the full pass of a triple over the starting values lo..hi
RECURSIVE PassDigits(_, _, _, _)
PassDigits(lo, hi, t, cap) ==
  IF lo > hi
    THEN << >>
    ELSE (IF lo = 1 THEN << >>
                    ELSE DigitsOf(Trajectory(lo, t[1], t[2], t[3], cap)))
         \o PassDigits(lo + 1, hi, t, cap)

\* C27: at every point of scan_cube each record of the output collection
\* belongs to a triple whose pass over the full starting range and whose
\* analysis have completed, and triples are analyzed strictly one after
\* another; a triple whose pass is interrupted or raises contributes no
\* record and none of its digits to any record.
C27_RecordsOnlyAfterFullPass ==
  /\ [](spc \in {"loop", "analyzing", "return"} =>
          /\ \A i \in 1..Len(results) :
               /\ results[i].parameters \in Elements(invoked)
               /\ results[i].parameters \notin Elements(failed)
               /\ results[i].initial_range = initial_range
               /\ results[i].digit_frequencies
                    = ObservedCounts(PassDigits(initial_range[1],
                                                initial_range[2],
                                                results[i].parameters,
                                                max_iterations))
          /\ Len(results) + Len(failed)
               = Len(invoked) - (IF spc = "analyzing" THEN 1 ELSE 0)
          /\ spc = "analyzing" => <<a, b, c>> = Last(invoked))
  /\ [][results' # results =>
          /\ spc = "analyzing" /\ apc = "return"
          /\ next_n > initial_range[2]
          /\ results' = Append(results, analysis)]_vars

\* a triple whose pass yields digits has raised, and the record of a later
\* triple is in the collection returned
C27_Witness ==
  /\ spc = "return"
  /\ \E i \in 1..Len(invoked) : \E j \in 1..Len(results) :
       /\ invoked[i] \in Elements(failed)
       /\ PassDigits(initial_range[1], initial_range[2], invoked[i],
                     max_iterations) # << >>
       /\ \E k \in (i + 1)..Len(invoked) : invoked[k] = results[j].parameters
       /\ results[j].total_samples >= 1

(***************************************************************************)
(* Histograms of batches                                                   *)
(***************************************************************************)
\* the digits process_batch samples over the starting values lo..hi when
\* none is in the checkpoint
RECURSIVE BatchPassDigits(_, _, _)
BatchPassDigits(lo, hi, cfg) ==
  IF lo > hi
    THEN << >>
    ELSE (IF lo = 1
            THEN << >>
            ELSE BatchDigits(Trajectory(lo, cfg.param_a, cfg.param_b,
                                        cfg.param_c,
                                        cfg.max_iterations)).digits)
         \o BatchPassDigits(lo + 1, hi, cfg)

\* the element-wise sum of the histograms the workers 1..k have returned
RECURSIVE SumOfReturned(_)
SumOfReturned(k) ==
  IF k = 0
    THEN [d \in 1..9 |-> 0]
    ELSE LET rest == SumOfReturned(k - 1)
         IN  IF worker[k].pc = "done"
               THEN [d \in 1..9 |-> rest[d] + worker[k].result.digit_counts[d]]
               ELSE rest

\* C28: starting from an empty checkpoint, for any batch size >= 1 the
\* element-wise sum of the digit_counts that process_batch returns for the
\* batches of create_batches(start, end, size) is the histogram of the whole
\* range [start, end] analyzed in one pass with the same (a, b, c) and cap,
\* in whatever order the batches complete.
C28_BatchHistogramsAddUp ==
  (Len(worker) >= 1 /\ initial_file.cases = {} /\ AllFinished) =>
    SumOfReturned(Len(worker))
      = ObservedCounts(BatchPassDigits(worker[1].start,
                                       worker[Len(worker)].end,
                                       worker[1].config))

(***************************************************************************)
(* Termination of generalized_collatz                                      *)
(***************************************************************************)
\* C29: generalized_collatz terminates for every input (any integers n, b,
\* c, any a including 1, any cap M >= 0): the outer loop runs at most M
\* times and the shortcut loop always ends, also when b*x + c is zero or
\* negative and when a = 1.
C29_Terminates ==
  /\ <>Returned
  /\ [](iter <= max_iterations)
  /\ []((pc = "loop" /\ current % a # 0) =>
          LET numerator == b * current + c
              turns == ShortcutTurns(numerator, a, MaxShortcutTurns)
          IN  /\ turns >= 0
              /\ numerator <= 0 => turns = 0
              /\ numerator > 0 =>
                   MaximalDivision(numerator, a) * a ^ turns = numerator)

\* a call with a >= 2 has returned after the shortcut loop met the
\* numerator 0
C29_Witness ==
  /\ Returned /\ a >= 2 /\ Len(sequence) >= 2
  /\ Last(sequence) = 0
  /\ sequence[Len(sequence) - 1] % a # 0
  /\ b * sequence[Len(sequence) - 1] + c = 0

(***************************************************************************)
(* Properties of create_batches                                            *)
(***************************************************************************)
\* C30: for start <= end and batch_size >= 1, create_batches terminates and
\* returns contiguous, ascending, pairwise disjoint ranges that cover every
\* integer of [start, end] exactly once, each of size at most batch_size and
\* all but the last of size exactly batch_size; for start > end it returns
\* no batch.
C30_BatchesPartitionRange ==
  /\ <>(cbpc = "return")
  /\ [](cbpc = "return" =>
          LET bs == cb_batches
              Size(i) == bs[i][2] - bs[i][1] + 1
          IN  IF cb_start > cb_end
                THEN bs = << >>
                ELSE /\ Len(bs) >= 1
                     /\ bs[1][1] = cb_start
                     /\ bs[Len(bs)][2] = cb_end
                     /\ \A i \in 1..Len(bs) :
                          Size(i) >= 1 /\ Size(i) <= cb_batch_size
                     /\ \A i \in 1..(Len(bs) - 1) :
                          /\ Size(i) = cb_batch_size
                          /\ bs[i + 1][1] = bs[i][2] + 1
                     /\ \A v \in cb_start..cb_end :
                          Cardinality({i \in 1..Len(bs) :
                                         bs[i][1] <= v /\ v <= bs[i][2]}) = 1
                     /\ bs = create_batches(cb_start, cb_end, cb_batch_size))

\* three batches, the last one shorter than batch_size
C30_Witness ==
  /\ cbpc = "return"
  /\ Len(cb_batches) = 3
  /\ cb_batches[3][2] - cb_batches[3][1] + 1 < cb_batch_size
  /\ cb_batches[1][2] - cb_batches[1][1] + 1 = cb_batch_size

====
